---- MODULE Spec2Model ----
(***************************************************************************)
(* A model of package bloom (src/bloom.go, lines 1-90): a Bloom filter     *)
(* over a byte slice f and a hash count k, with Insert, MaybeContains and  *)
(* the binary codec MarshalBinary / UnmarshalBinary.                       *)
(*                                                                         *)
(* A Filter is the record [f |-> <<bytes>>, k |-> int]; bytes are integers *)
(* in 0..255 and Go's 0-based index b is the TLA+ index b + 1.  A Go panic *)
(* is an outcome of the operation: the operators return it in res, with    *)
(* the filter as the panic left it.                                        *)
(*                                                                         *)
(* Lines 92-181 of the file hold an earlier variant of the package (New    *)
(* without checks, Contains, hashBits); the tests call MaybeContains, so   *)
(* the operations below are those of lines 1-90.                           *)
(***************************************************************************)
EXTENDS Integers, Sequences, FiniteSets

VARIABLES filter, origin, inserted, last

vars == <<filter, origin, inserted, last>>

(***************************************************************************)
(* Bounds of the model.                                                    *)
(***************************************************************************)
\* Number of items of ItemList the environment inserts and queries.
NumItems == 3
\* Longest input handed to UnmarshalBinary (inputs of length 0..MaxDataLen).
MaxDataLen == 5

(***************************************************************************)
(* Integer helpers: Go's bit operators on non-negative integers.           *)
(***************************************************************************)
RECURSIVE BitAnd(_, _)
BitAnd(a, b) ==
    IF a = 0 \/ b = 0 THEN 0
    ELSE (a % 2) * (b % 2) + 2 * BitAnd(a \div 2, b \div 2)

RECURSIVE BitOr(_, _)
BitOr(a, b) ==
    IF a = 0 THEN b
    ELSE IF b = 0 THEN a
    ELSE (IF a % 2 = 1 \/ b % 2 = 1 THEN 1 ELSE 0) + 2 * BitOr(a \div 2, b \div 2)

\* c & m for a 16-bit c and m = len*8 - 1 >= -1; in two's complement -1 is
\* all ones, so c & -1 = c.
AndMask(c, m) == IF m = -1 THEN c ELSE BitAnd(c, m)

\* math/bits.OnesCount(uint(n)) for n >= 0 (New calls it only after b > 0).
RECURSIVE OnesCount(_)
OnesCount(n) == IF n = 0 THEN 0 ELSE (n % 2) + OnesCount(n \div 2)

\* make([]byte, n): n zero bytes.
Zeros(n) == [i \in 1..n |-> 0]

(***************************************************************************)
(* crypto/sha256.Sum256, tabulated on the items of the model: the 32       *)
(* digest bytes of each item, in digest order.                             *)
(***************************************************************************)
ItemList == <<"abc", "", "a", "b", "c", "xyz", "d">>

Items == {ItemList[i] : i \in 1..NumItems}

Sum256(item) ==
    CASE item = "abc" ->
           <<186, 120, 22, 191, 143, 1, 207, 234, 65, 65, 64, 222, 93, 174, 34, 35,
             176, 3, 97, 163, 150, 23, 122, 156, 180, 16, 255, 97, 242, 0, 21, 173>>
      [] item = "" ->
           <<227, 176, 196, 66, 152, 252, 28, 20, 154, 251, 244, 200, 153, 111, 185, 36,
             39, 174, 65, 228, 100, 155, 147, 76, 164, 149, 153, 27, 120, 82, 184, 85>>
      [] item = "a" ->
           <<202, 151, 129, 18, 202, 27, 189, 202, 250, 194, 49, 179, 154, 35, 220, 77,
             167, 134, 239, 248, 20, 124, 78, 114, 185, 128, 119, 133, 175, 238, 72, 187>>
      [] item = "b" ->
           <<62, 35, 232, 22, 0, 57, 89, 74, 51, 137, 79, 101, 100, 225, 177, 52,
             139, 189, 122, 0, 136, 212, 44, 74, 203, 115, 238, 174, 213, 156, 0, 157>>
      [] item = "c" ->
           <<46, 125, 44, 3, 169, 80, 122, 226, 101, 236, 245, 181, 53, 104, 133, 165,
             51, 147, 162, 2, 157, 36, 19, 148, 153, 114, 101, 161, 162, 90, 239, 198>>
      [] item = "xyz" ->
           <<54, 8, 188, 161, 228, 78, 166, 196, 210, 104, 235, 109, 176, 34, 96, 38,
             152, 146, 192, 180, 43, 134, 187, 241, 231, 122, 111, 161, 108, 60, 146, 130>>
      [] item = "d" ->
           <<24, 172, 62, 115, 67, 240, 22, 137, 12, 81, 14, 147, 249, 53, 38, 17,
             105, 217, 227, 245, 101, 67, 100, 41, 131, 15, 175, 9, 52, 244, 248, 228>>

\* binary.BigEndian.Uint16(hash[off:]): defined when two bytes remain.
Uint16Defined(hash, off) == off + 2 <= Len(hash)

Uint16(hash, off) == hash[off + 1] * 256 + hash[off + 2]

(***************************************************************************)
(* The Filter type and its zero value.                                     *)
(***************************************************************************)
ZeroFilter == [f |-> <<>>, k |-> 0]

\* Go's bounds check on f.f[n/8] in bit and setBit.
InRange(F, n) == n >= 0 /\ n \div 8 < Len(F.f)

\* bit with the bits of a byte counted from the most significant one.
bitMSBFirst(F, n) ==
    LET b == n \div 8
        i == n % 8
    IN  BitAnd(F.f[b + 1] \div (2 ^ (7 - i)), 1)

\* bit returns the filter's nth bit.
bit(F, n) ==
    LET b == n \div 8
        i == n % 8
    IN  BitAnd(F.f[b + 1] \div (2 ^ i), 1)

\* setBit with = in place of |=: the other bits of the byte are lost.
setBitAssign(F, n) ==
    LET b == n \div 8
        i == n % 8
    IN  [F EXCEPT !.f[b + 1] = 2 ^ i]

\* setBit with ^= in place of |=: a set bit is cleared again.
setBitToggle(F, n) ==
    LET b == n \div 8
        i == n % 8
    IN  [F EXCEPT !.f[b + 1] = IF BitAnd(@ \div (2 ^ i), 1) = 1 THEN @ - 2 ^ i ELSE @ + 2 ^ i]

\* setBit sets the filter's nth bit to 1.
setBit(F, n) ==
    LET b == n \div 8
        i == n % 8
    IN  [F EXCEPT !.f[b + 1] = BitOr(@, 2 ^ i)]

(***************************************************************************)
(* New: a Filter of b zero bytes using k hash values, or a panic naming    *)
(* the violated requirement.  The checks run in the order of the source.   *)
(***************************************************************************)
\* New with the upper limits excluded (>= in place of >).
NewLimitsExcluded(b, k) ==
    IF b <= 0 \/ b >= 8192
    THEN [res |-> "New: Filter size out of range", filter |-> ZeroFilter]
    ELSE IF OnesCount(b) # 1
    THEN [res |-> "New: Filter size not a power of 2", filter |-> ZeroFilter]
    ELSE IF k <= 0 \/ k >= 16
    THEN [res |-> "New: Number of hash values out of range", filter |-> ZeroFilter]
    ELSE [res |-> "ok", filter |-> [f |-> Zeros(b), k |-> k]]

New(b, k) ==
    IF b <= 0 \/ b > 8192
    THEN [res |-> "New: Filter size out of range", filter |-> ZeroFilter]
    ELSE IF OnesCount(b) # 1
    THEN [res |-> "New: Filter size not a power of 2", filter |-> ZeroFilter]
    ELSE IF k <= 0 \/ k > 16
    THEN [res |-> "New: Number of hash values out of range", filter |-> ZeroFilter]
    ELSE [res |-> "ok", filter |-> [f |-> Zeros(b), k |-> k]]

(***************************************************************************)
(* The index of hash value h: two digest bytes, big-endian, masked with    *)
(* len(f.f)*8 - 1.                                                         *)
(***************************************************************************)
\* Index reading the digest at hash[h:] in place of hash[2*h:].
IndexStrideOne(F, hash, h) == AndMask(Uint16(hash, h), Len(F.f) * 8 - 1)

\* Index masking with len(f.f)*8 in place of len(f.f)*8 - 1.
IndexMaskNoMinusOne(F, hash, h) == AndMask(Uint16(hash, 2 * h), Len(F.f) * 8)

Index(F, hash, h) == AndMask(Uint16(hash, 2 * h), Len(F.f) * 8 - 1)

(***************************************************************************)
(* The index as the earlier variant of Insert and Contains computes it     *)
(* (lines 123-131, 142, 155): the candidate, a uint16, masked with         *)
(* 1<<hashBits - 1 evaluated in uint16, where 1<<16 is 0 and 0 - 1 wraps   *)
(* to 65535.  hashBits ends the process when the size in bytes is not a    *)
(* power of two.                                                           *)
(***************************************************************************)
\* math/bits.TrailingZeros64(n); 64 for n = 0.
RECURSIVE TrailingZeros64(_)
TrailingZeros64(n) ==
    IF n = 0 THEN 64
    ELSE IF n % 2 = 1 THEN 0
    ELSE 1 + TrailingZeros64(n \div 2)

hashBitsDefined(F) == OnesCount(Len(F.f)) = 1

hashBits(F) == TrailingZeros64(Len(F.f) * 8)

IndexVariant(F, hash, h) ==
    BitAnd(Uint16(hash, 2 * h), (((2 ^ hashBits(F)) % 65536) - 1) % 65536)

(***************************************************************************)
(* Insert: the loop from hash value h on.  It panics when fewer than two   *)
(* digest bytes remain at 2*h, or when setBit indexes outside f.f; the     *)
(* bits set before the panic stay set.                                     *)
(***************************************************************************)
RECURSIVE InsertLoop(_, _, _)
InsertLoop(F, hash, h) ==
    IF ~(h < F.k) THEN [res |-> "ok", filter |-> F]
    ELSE IF ~Uint16Defined(hash, 2 * h) THEN [res |-> "panic", filter |-> F]
    ELSE IF ~InRange(F, Index(F, hash, h)) THEN [res |-> "panic", filter |-> F]
    ELSE InsertLoop(setBit(F, Index(F, hash, h)), hash, h + 1)

Insert(F, item) == InsertLoop(F, Sum256(item), 0)

(***************************************************************************)
(* MaybeContains: "false" at the first unset bit, "true" when all k bits   *)
(* are set, "panic" under the conditions of Insert.                        *)
(***************************************************************************)
RECURSIVE MaybeContainsLoop(_, _, _)
MaybeContainsLoop(F, hash, h) ==
    IF ~(h < F.k) THEN "true"
    ELSE IF ~Uint16Defined(hash, 2 * h) THEN "panic"
    ELSE IF ~InRange(F, Index(F, hash, h)) THEN "panic"
    ELSE IF bit(F, Index(F, hash, h)) = 0 THEN "false"
    ELSE MaybeContainsLoop(F, hash, h + 1)

\* MaybeContains that answers after the first hash value.
MaybeContainsFirstOnly(F, item) ==
    MaybeContainsLoop([F EXCEPT !.k = IF @ > 1 THEN 1 ELSE @], Sum256(item), 0)

MaybeContains(F, item) == MaybeContainsLoop(F, Sum256(item), 0)

\* A MaybeContains call on receiver F that also inserts the item.
MaybeContainsCallInserting(F, item) ==
    [res |-> MaybeContains(F, item), filter |-> Insert(F, item).filter]

\* A MaybeContains call on receiver F: its answer, and the receiver after
\* it.  The loop reaches the storage only through bit, which reads f.f[b].
MaybeContainsCall(F, item) == [res |-> MaybeContains(F, item), filter |-> F]

(***************************************************************************)
(* MarshalBinary: the filter's bytes followed by byte(k).                  *)
(***************************************************************************)
\* MarshalBinary with the k byte written first.
MarshalBinaryKFirst(F) == [data |-> <<F.k % 256>> \o F.f, err |-> "nil"]

MarshalBinary(F) == [data |-> Append(F.f, F.k % 256), err |-> "nil"]

(***************************************************************************)
(* UnmarshalBinary: an error on empty data, leaving F as it was; otherwise *)
(* F.f becomes a copy of data[:l-1] and F.k the last byte.                 *)
(***************************************************************************)
\* UnmarshalBinary that resets the target before it looks at the data.
UnmarshalBinaryResetFirst(F, data) ==
    LET l == Len(data)
    IN  IF l = 0
        THEN [err |-> "MarshalBinary: empty data slice", filter |-> ZeroFilter]
        ELSE [err |-> "nil",
              filter |-> [f |-> SubSeq(data, 1, l - 1), k |-> data[l]]]

\* UnmarshalBinary that keeps the k byte in the storage (data[:l]).
UnmarshalBinaryKeepsK(F, data) ==
    LET l == Len(data)
    IN  IF l = 0
        THEN [err |-> "MarshalBinary: empty data slice", filter |-> F]
        ELSE [err |-> "nil", filter |-> [f |-> data, k |-> data[l]]]

UnmarshalBinary(F, data) ==
    LET l == Len(data)
    IN  IF l = 0
        THEN [err |-> "MarshalBinary: empty data slice", filter |-> F]
        ELSE [err |-> "nil",
              filter |-> [f |-> SubSeq(data, 1, l - 1), k |-> data[l]]]

(***************************************************************************)
(* The environment: the arguments the operations are called with.          *)
(***************************************************************************)
\* The (b, k) pairs New is called with next to the other operations:
\* accepted ones, and one breaking each requirement.
NewArgs ==
    {<<1, 1>>, <<2, 2>>, <<4, 3>>, <<4, 16>>, <<0, 1>>, <<3, 1>>, <<4, 17>>}

\* The sizes and hash counts New is called with when it is checked on its
\* own: both sides of every limit, powers of two and other sizes.
NewSizes == {-1, 0, 1, 2, 3, 4, 100, 4096, 8192, 8193, 16384}

NewKs == {-1, 0, 1, 8, 16, 17}

\* Inputs of UnmarshalBinary: the empty input, and for every length up to
\* MaxDataLen a storage part (all zero, all ones, or byte i = i) followed by
\* a k byte below, inside and above the range New accepts.
StoreKinds == {"zeros", "ones", "ramp"}

Store(kind, n) ==
    [i \in 1..n |-> CASE kind = "zeros" -> 0
                      [] kind = "ones" -> 255
                      [] kind = "ramp" -> i]

KBytes == {0, 2, 17}

DataInputs ==
    {<<>>} \cup {Store(kind, n - 1) \o <<kb>> :
                    kind \in StoreKinds, n \in 1..MaxDataLen, kb \in KBytes}

\* Sizes and 16-bit candidates the index computation is checked on by
\* itself: every size New accepts, and candidates at the edges of every
\* mask together with digest groups of the test strings.
MaskSizes == {2 ^ e : e \in 0..13}

MaskCandidates ==
    {0, 1, 7, 8, 255, 256, 4095, 4096, 32767, 32768, 47736, 58288, 65535}

\* Sizes and bit indices of the Bit Store check: bitTests of the tests uses
\* bits 0..7 of byte 0 and bits 8, 9 of byte 1.
BitSizes == {1, 2}

SetBitArgs == (0..7) \cup {8, 9, 15}

NoCall == [op |-> "none", b |-> 0, k |-> 0, item |-> "", data |-> <<>>, res |-> ""]

(***************************************************************************)
(* State: the Filter instance under observation; how it came to be         *)
(* (origin); the items inserted into it since then (inserted); and the     *)
(* last call with its arguments and result (last).                         *)
(***************************************************************************)
Init ==
    /\ filter = ZeroFilter
    /\ origin = "zero"
    /\ inserted = {}
    /\ last = NoCall

\* f := New(b, k).  On a panic no Filter is returned: the instance stays.
NewCall(b, k) ==
    LET r == New(b, k)
    IN  /\ last' = [NoCall EXCEPT !.op = "New", !.b = b, !.k = k, !.res = r.res]
        /\ IF r.res = "ok"
           THEN filter' = r.filter /\ origin' = "New" /\ inserted' = {}
           ELSE UNCHANGED <<filter, origin, inserted>>

CallNew == \E a \in NewArgs : NewCall(a[1], a[2])

CallNewAny == \E b \in NewSizes, k \in NewKs : NewCall(b, k)

\* f.Insert(item)
CallInsert ==
    \E item \in Items :
        LET r == Insert(filter, item)
        IN  /\ filter' = r.filter
            /\ inserted' = IF r.res = "ok" THEN inserted \cup {item} ELSE inserted
            /\ last' = [NoCall EXCEPT !.op = "Insert", !.item = item, !.res = r.res]
            /\ UNCHANGED origin

\* f.MaybeContains(item)
CallMaybeContains ==
    \E item \in Items :
        LET r == MaybeContainsCall(filter, item)
        IN  /\ filter' = r.filter
            /\ last' = [NoCall EXCEPT !.op = "MaybeContains", !.item = item,
                                      !.res = r.res]
            /\ UNCHANGED <<origin, inserted>>

\* data, err := f.MarshalBinary()
CallMarshalBinary ==
    LET r == MarshalBinary(filter)
    IN  /\ last' = [NoCall EXCEPT !.op = "MarshalBinary", !.data = r.data, !.res = r.err]
        /\ UNCHANGED <<filter, origin, inserted>>

\* err := f.UnmarshalBinary(data), on an input of the environment or on the
\* data the preceding MarshalBinary returned.
CallUnmarshalBinary ==
    \E data \in DataInputs \cup (IF last.op = "MarshalBinary" THEN {last.data} ELSE {}) :
        LET r == UnmarshalBinary(filter, data)
        IN  /\ filter' = r.filter
            /\ last' = [NoCall EXCEPT !.op = "UnmarshalBinary", !.data = data, !.res = r.err]
            /\ IF r.err = "nil"
               THEN origin' = "UnmarshalBinary" /\ inserted' = {}
               ELSE UNCHANGED <<origin, inserted>>

Next ==
    \/ CallNew
    \/ CallInsert
    \/ CallMaybeContains
    \/ CallMarshalBinary
    \/ CallUnmarshalBinary

Spec == Init /\ [][Next]_vars

\* One index computation on a fresh filter of size b: the two digest bytes
\* Insert reads for a hash value, holding the candidate c.
CallIndex ==
    \E b \in MaskSizes, c \in MaskCandidates :
        /\ filter' = New(b, 1).filter
        /\ origin' = "New"
        /\ inserted' = {}
        /\ last' = [NoCall EXCEPT !.op = "Index", !.b = b,
                                  !.data = <<c \div 256, c % 256>>, !.res = "ok"]

NextMask == CallIndex

SpecMask == Init /\ [][NextMask]_vars

\* The Bit Store on its own, as TestSetBit drives it: a filter from New,
\* then setBit on indices inside the storage.
CallNewBits == \E b \in BitSizes : NewCall(b, 1)

CallSetBit ==
    \E n \in SetBitArgs :
        /\ InRange(filter, n)
        /\ filter' = setBit(filter, n)
        /\ last' = [NoCall EXCEPT !.op = "setBit", !.b = n, !.res = "ok"]
        /\ UNCHANGED <<origin, inserted>>

NextBits ==
    \/ CallNewBits
    \/ CallSetBit

SpecBits == Init /\ [][NextBits]_vars

\* New on its own, over NewSizes and NewKs.
NextNew == CallNewAny

SpecNew == Init /\ [][NextNew]_vars

(***************************************************************************)
(* Vocabulary of the properties.                                           *)
(***************************************************************************)
IsPowerOfTwo(n) == \E e \in 0..16 : n = 2 ^ e

ValidSize(n) == n >= 1 /\ n <= 8192 /\ IsPowerOfTwo(n)

ValidK(k) == k >= 1 /\ k <= 16

ValidFilter(F) == ValidSize(Len(F.f)) /\ ValidK(F.k)

\* The indices of the bits of F that are 1 (only non-zero bytes hold any).
SetBits(F) ==
    UNION {{8 * (c - 1) + j : j \in {i \in 0..7 : bit(F, 8 * (c - 1) + i) = 1}} :
             c \in {d \in 1..Len(F.f) : F.f[d] # 0}}

\* No bit of F is 0 in G, and no item F maybe-contains is refused by G.
Monotone(F, G) ==
    /\ SetBits(F) \subseteq SetBits(G)
    /\ \A y \in Items : MaybeContains(F, y) = "true" => MaybeContains(G, y) = "true"

(***************************************************************************)
(* C1.  No false negatives: on a filter made by New, every item inserted   *)
(* since then is reported by MaybeContains, whatever else was inserted.    *)
(***************************************************************************)
NoFalseNegatives ==
    origin = "New" => \A x \in inserted : MaybeContains(filter, x) = "true"

NoFalseNegativesWitness ==
    /\ origin = "New"
    /\ Cardinality(inserted) >= 2
    /\ last.op = "MaybeContains"
    /\ last.item \in inserted
    /\ last.res = "true"
    /\ \E y \in Items : MaybeContains(filter, y) = "false"

(***************************************************************************)
(* C2.  Decode rejection, as claimed: UnmarshalBinary returns an error     *)
(* exactly when the input is empty, or its storage length L-1 is not a     *)
(* power of two in [1, 8192], or its last byte is not in [1, 16].          *)
(***************************************************************************)
DecodeRejection ==
    last.op = "UnmarshalBinary" =>
        LET L == Len(last.data)
            bad == IF L = 0 THEN TRUE
                   ELSE ~ValidSize(L - 1) \/ ~ValidK(last.data[L])
        IN  (last.res # "nil") <=> bad

(***************************************************************************)
(* C3.  Decode is all-or-nothing: a call of UnmarshalBinary that returns   *)
(* an error leaves the target's storage and k as they were.                *)
(***************************************************************************)
DecodeAllOrNothing ==
    [][(last'.op = "UnmarshalBinary" /\ last'.res # "nil") => filter' = filter]_vars

DecodeAllOrNothingWitness ==
    /\ last.op = "UnmarshalBinary"
    /\ last.res # "nil"
    /\ origin = "New"
    /\ inserted # {}
    /\ SetBits(filter) # {}

(***************************************************************************)
(* C4.  Construct validation: New succeeds exactly when b is a power of    *)
(* two in [1, 8192] and k is in [1, 16], and then returns a filter of b    *)
(* bytes using k; otherwise it returns no filter and its message names a   *)
(* requirement the arguments break.                                        *)
(***************************************************************************)
NewValidates ==
    [][last'.op = "New" =>
         LET b == last'.b
             k == last'.k
             sizeInRange == b >= 1 /\ b <= 8192
         IN  /\ (last'.res = "ok") <=> (sizeInRange /\ IsPowerOfTwo(b) /\ ValidK(k))
             /\ last'.res = "ok" =>
                    Len(filter'.f) = b /\ filter'.k = k /\ origin' = "New"
             /\ last'.res # "ok" => filter' = filter /\ origin' = origin
             /\ last'.res = "New: Filter size out of range" => ~sizeInRange
             /\ last'.res = "New: Filter size not a power of 2" => ~IsPowerOfTwo(b)
             /\ last'.res = "New: Number of hash values out of range" => ~ValidK(k)
             /\ last'.res \in {"ok", "New: Filter size out of range",
                               "New: Filter size not a power of 2",
                               "New: Number of hash values out of range"}]_vars

NewValidatesWitness ==
    /\ last.op = "New"
    /\ last.b = 8192
    /\ last.k = 16
    /\ last.res = "ok"
    /\ Len(filter.f) = 8192

(***************************************************************************)
(* C5.  Structural invariant, as claimed: every filter that came from a    *)
(* successful New or UnmarshalBinary has a size that is a power of two in  *)
(* [1, 8192] and a k in [1, 16].                                           *)
(***************************************************************************)
StructuralInvariant == origin # "zero" => ValidFilter(filter)

(***************************************************************************)
(* C6.  As claimed: Insert and MaybeContains on the zero-value Filter are  *)
(* rejected: Insert does not return normally and MaybeContains gives no    *)
(* boolean answer.                                                         *)
(***************************************************************************)
ZeroValueRejected ==
    (origin = "zero" /\ last.op \in {"Insert", "MaybeContains"}) => last.res = "panic"

(***************************************************************************)
(* C7.  Round trip: for a filter of valid size and k, UnmarshalBinary of   *)
(* its MarshalBinary succeeds, into any target, and yields the filter's    *)
(* bytes and k.                                                            *)
(***************************************************************************)
RoundTrip ==
    ValidFilter(filter) =>
        \A target \in {ZeroFilter, [f |-> <<255, 255>>, k |-> 7]} :
            LET m == MarshalBinary(filter)
                u == UnmarshalBinary(target, m.data)
            IN  /\ m.err = "nil"
                /\ u.err = "nil"
                /\ u.filter.f = filter.f
                /\ u.filter.k = filter.k

RoundTripWitness ==
    /\ ValidFilter(filter)
    /\ last.op = "UnmarshalBinary"
    /\ last.res = "nil"
    /\ last.data = MarshalBinary(filter).data
    /\ Len(filter.f) = 4
    /\ filter.f[1] # filter.f[4]
    /\ filter.f[4] # filter.k

(***************************************************************************)
(* C8.  Monotonicity under Insert: a call of Insert clears no bit, and     *)
(* turns no true MaybeContains answer into another one.                    *)
(***************************************************************************)
MonotoneUnderInsert ==
    [][last'.op = "Insert" => Monotone(filter, filter')]_vars

MonotoneUnderInsertWitness ==
    /\ last.op = "Insert"
    /\ last.res = "ok"
    /\ Cardinality(inserted) >= 2
    /\ \E y \in inserted : y # last.item /\ MaybeContains(filter, y) = "true"
    /\ Cardinality(SetBits(filter)) >= 3

(***************************************************************************)
(* C9.  Lifetime monotonicity, as claimed: no operation applied to a       *)
(* Filter instance (Insert, MaybeContains, MarshalBinary, UnmarshalBinary  *)
(* into it) clears a bit or turns a true MaybeContains answer false.  It   *)
(* is stated of the instances the claim is about, those of valid size and  *)
(* k before and after the call.                                            *)
(***************************************************************************)
LifetimeMonotone ==
    [][(/\ last'.op \in {"Insert", "MaybeContains", "MarshalBinary", "UnmarshalBinary"}
        /\ ValidFilter(filter)
        /\ ValidFilter(filter'))
         => Monotone(filter, filter')]_vars

(***************************************************************************)
(* C9, amended.  Insert, MaybeContains and MarshalBinary clear no bit and  *)
(* turn no true MaybeContains answer false; UnmarshalBinary replaces the   *)
(* storage and may clear bits.                                             *)
(***************************************************************************)
LifetimeMonotoneExceptDecode ==
    [][last'.op \in {"Insert", "MaybeContains", "MarshalBinary"}
         => Monotone(filter, filter')]_vars

LifetimeMonotoneExceptDecodeWitness ==
    /\ last.op = "MarshalBinary"
    /\ origin = "New"
    /\ Cardinality(inserted) >= 2
    /\ SetBits(filter) # {}
    /\ \A x \in inserted : MaybeContains(filter, x) = "true"

(***************************************************************************)
(* C10.  Idempotence of Insert: in every filter state and for every item,  *)
(* inserting the item twice leaves the storage and k that inserting it     *)
(* once leaves.                                                            *)
(***************************************************************************)
InsertIdempotent ==
    \A x \in Items :
        LET once == Insert(filter, x)
            twice == Insert(once.filter, x)
        IN  twice.filter.f = once.filter.f /\ twice.filter.k = once.filter.k

InsertIdempotentWitness ==
    /\ last.op = "Insert"
    /\ last.res = "ok"
    /\ origin = "New"
    /\ filter.k >= 2
    /\ SetBits(filter) # {}
    /\ Insert(filter, last.item).filter = filter
    /\ \E y \in Items : Insert(filter, y).filter # filter

(***************************************************************************)
(* The candidate indices of an item, computed from the digest alone: the   *)
(* 16-bit big-endian groups c_0..c_15, and for a filter F the first k of   *)
(* them reduced modulo the number of bits.                                 *)
(***************************************************************************)
Candidate(item, h) == LET d == Sum256(item) IN d[2 * h + 1] * 256 + d[2 * h + 2]

Derived(F, item) == {Candidate(item, h) % (Len(F.f) * 8) : h \in 0..(F.k - 1)}

(***************************************************************************)
(* C11.  Encode format: MarshalBinary returns no error and the storage     *)
(* bytes in order followed by one byte equal to k, sizeBytes + 1 bytes in  *)
(* all; the fresh filter of size 1 and k = 1 encodes to <<0, 1>>.          *)
(***************************************************************************)
EncodeFormat ==
    last.op = "MarshalBinary" =>
        /\ last.res = "nil"
        /\ Len(last.data) = Len(filter.f) + 1
        /\ \A i \in 1..Len(filter.f) : last.data[i] = filter.f[i]
        /\ last.data[Len(filter.f) + 1] = filter.k
        /\ (origin = "New" /\ inserted = {} /\ Len(filter.f) = 1 /\ filter.k = 1)
               => last.data = <<0, 1>>

EncodeFormatWitness ==
    /\ last.op = "MarshalBinary"
    /\ origin = "New"
    /\ inserted = {}
    /\ last.data = <<0, 1>>

(***************************************************************************)
(* C12.  MaybeContains is a pure query: a call leaves the storage and k    *)
(* unchanged and moves the filter neither into nor out of the zero-value   *)
(* state; after a call of Insert the filter has the size, k and origin it  *)
(* had before.                                                             *)
(***************************************************************************)
MaybeContainsPure ==
    [][/\ last'.op = "MaybeContains" => filter' = filter /\ origin' = origin
       /\ last'.op = "Insert" =>
              /\ origin' = origin
              /\ Len(filter'.f) = Len(filter.f)
              /\ filter'.k = filter.k]_vars

MaybeContainsPureWitness ==
    /\ last.op = "MaybeContains"
    /\ last.res = "false"
    /\ origin = "New"
    /\ inserted # {}
    /\ SetBits(filter) # {}

(***************************************************************************)
(* C13.  In-range access, as claimed: in every state reachable through     *)
(* the operations no call of Insert or MaybeContains indexes outside the   *)
(* storage or the digest, that is, none panics.                            *)
(***************************************************************************)
AccessInRange ==
    last.op \in {"Insert", "MaybeContains"} => last.res # "panic"

(***************************************************************************)
(* C14.  Insert sets exactly the derived bits: on a filter of valid size   *)
(* and k, the bits set after Insert are those set before together with     *)
(* the item's first k candidates reduced to the bit range; k and the size  *)
(* are unchanged and the call returns normally.                            *)
(***************************************************************************)
InsertSetsDerivedBits ==
    [][(last'.op = "Insert" /\ ValidFilter(filter)) =>
         /\ last'.res = "ok"
         /\ SetBits(filter') = SetBits(filter) \cup Derived(filter, last'.item)
         /\ Len(filter'.f) = Len(filter.f)
         /\ filter'.k = filter.k]_vars

InsertSetsDerivedBitsWitness ==
    /\ last.op = "Insert"
    /\ origin = "New"
    /\ inserted = {last.item}
    /\ filter.k = 3
    /\ SetBits(filter) = Derived(filter, last.item)
    /\ Cardinality(SetBits(filter)) = 3

(***************************************************************************)
(* C15.  MaybeContains result: on a filter of valid size and k the answer  *)
(* is true exactly when all of the item's first k reduced candidates are   *)
(* set, and false otherwise; on a fresh filter it is false for every item. *)
(***************************************************************************)
MaybeContainsResult ==
    ValidFilter(filter) =>
        /\ \A x \in Items :
               MaybeContains(filter, x) =
                   IF Derived(filter, x) \subseteq SetBits(filter) THEN "true" ELSE "false"
        /\ last.op = "MaybeContains" =>
               last.res = IF Derived(filter, last.item) \subseteq SetBits(filter)
                          THEN "true" ELSE "false"
        /\ (origin = "New" /\ inserted = {}) =>
               \A x \in Items : MaybeContains(filter, x) = "false"

MaybeContainsResultWitness ==
    /\ last.op = "MaybeContains"
    /\ last.res = "true"
    /\ origin = "New"
    /\ inserted # {}
    /\ last.item \notin inserted
    /\ \E y \in Items : MaybeContains(filter, y) = "false"

(***************************************************************************)
(* C16.  Masking is exact modulo reduction: for every size New accepts     *)
(* and every 16-bit candidate c, the index is c mod (sizeBytes*8), both    *)
(* with the mask len*8 - 1 and with the mask 1<<hashBits - 1 of the        *)
(* variant, evaluated in 16 bits.                                          *)
(***************************************************************************)
MaskIsModulo ==
    last.op = "Index" =>
        LET c == last.data[1] * 256 + last.data[2]
            n == Len(filter.f) * 8
        IN  /\ ValidFilter(filter)
            /\ Len(filter.f) = last.b
            /\ Index(filter, last.data, 0) = c % n
            /\ hashBitsDefined(filter)
            /\ IndexVariant(filter, last.data, 0) = c % n

MaskIsModuloWitness ==
    /\ last.op = "Index"
    /\ Len(filter.f) = 8192
    /\ last.data = <<255, 255>>
    /\ hashBits(filter) = 16
    /\ IndexVariant(filter, last.data, 0) = 65535

(***************************************************************************)
(* C17.  Decode success replaces the target: after a call of               *)
(* UnmarshalBinary that returns no error on an input of length L, the      *)
(* storage is the first L-1 input bytes and k the last byte, whatever the  *)
(* target held before.                                                     *)
(***************************************************************************)
DecodeReplaces ==
    [][(last'.op = "UnmarshalBinary" /\ last'.res = "nil") =>
         LET d == last'.data
             L == Len(d)
         IN  /\ L >= 1
             /\ Len(filter'.f) = L - 1
             /\ \A i \in 1..(L - 1) : filter'.f[i] = d[i]
             /\ filter'.k = d[L]]_vars

DecodeReplacesWitness ==
    /\ last.op = "UnmarshalBinary"
    /\ last.res = "nil"
    /\ last.data = <<1, 2, 3, 4, 2>>
    /\ filter = [f |-> <<1, 2, 3, 4>>, k |-> 2]

(***************************************************************************)
(* C18.  Bit Store addressing: bit(n) is bit n mod 8, counted from the     *)
(* least significant one, of byte n div 8; setBit(n) makes bit(n) 1 and    *)
(* changes no other bit, nor the size or k.  The table of the tests gives  *)
(* the bits of one 8-byte storage.                                         *)
(***************************************************************************)
BitStoreAddressing ==
    /\ \A n \in 0..(Len(filter.f) * 8 - 1) :
           /\ bit(filter, n) = (filter.f[(n \div 8) + 1] \div (2 ^ (n % 8))) % 2
           /\ LET G == setBit(filter, n)
              IN  /\ bit(G, n) = 1
                  /\ \A m \in 0..(Len(filter.f) * 8 - 1) :
                         m # n => bit(G, m) = bit(filter, m)
                  /\ Len(G.f) = Len(filter.f)
                  /\ G.k = filter.k
    /\ LET T == [f |-> <<72, 97, 80, 130, 1, 8, 0, 4>>, k |-> 0]
       IN  {n \in 0..63 : bit(T, n) = 1} = {3, 6, 8, 13, 14, 20, 22, 25, 31, 32, 43, 58}

BitStoreAddressingWitness ==
    /\ last.op = "setBit"
    /\ last.b = 9
    /\ filter.f = <<3, 2>>
    /\ {n \in 0..15 : bit(filter, n) = 1} = {0, 1, 9}

(***************************************************************************)
(* C19.  Set-bits characterization: in a filter made by New, the bits set  *)
(* are exactly the first k reduced candidates of the items inserted since. *)
(***************************************************************************)
SetBitsCharacterized ==
    origin = "New" =>
        SetBits(filter) = UNION {Derived(filter, x) : x \in inserted}

SetBitsCharacterizedWitness ==
    /\ origin = "New"
    /\ Cardinality(inserted) >= 2
    /\ Len(filter.f) = 4
    /\ filter.k = 3
    /\ Cardinality(SetBits(filter)) >= 4
    /\ \E x \in Items : MaybeContains(filter, x) = "false"

(***************************************************************************)
(* C20.  Insert commutes: in every filter state and for every pair of      *)
(* items x and y, inserting x then y leaves the storage and k that         *)
(* inserting y then x leaves.                                              *)
(***************************************************************************)
InsertCommutes ==
    \A i, j \in 1..NumItems :
        i < j =>
            Insert(Insert(filter, ItemList[i]).filter, ItemList[j]).filter
                = Insert(Insert(filter, ItemList[j]).filter, ItemList[i]).filter

InsertCommutesWitness ==
    /\ last.op = "Insert"
    /\ last.res = "ok"
    /\ origin = "New"
    /\ Cardinality(inserted) >= 2
    /\ filter.k >= 2
    /\ \E x \in inserted :
           /\ x # last.item
           /\ Derived(filter, x) # Derived(filter, last.item)
           /\ filter = Insert(Insert(New(Len(filter.f), filter.k).filter, last.item).filter, x).filter

====
